---- MODULE Spec2Model ----
(***************************************************************************)
(* StreamServer (app.py): a Flask server that spawns one ffmpeg            *)
(* subprocess per configured RTSP stream, serves the HLS files they write  *)
(* and, at exit, terminates the subprocesses and deletes the output tree.  *)
(*                                                                         *)
(* The model has one main thread (start_stream_conversion, app.run, the    *)
(* atexit callback cleanup), the signal handlers, the ffmpeg subprocesses  *)
(* with the files they write, and one HTTP request handler.                *)
(***************************************************************************)
EXTENDS Naturals, Integers, Sequences, FiniteSets, TLC

(* ------------------------------ bounds --------------------------------- *)

\* Number of times the cleanup routine may be invoked in one exit sequence
\* (specification SpecTwice only; app.py itself registers it once).
MaxCleanups == 2

\* Highest segment index ffmpeg reaches: segments are stream0.ts .. stream<MaxSegment>.ts
MaxSegment == 0

(* --------------------------- configuration ----------------------------- *)

\* STREAMS.items() in insertion order (the shipped example names camera1
\* and, commented out, camera2).
StreamOrder == <<"camera1", "camera2">>

STREAMS == {StreamOrder[i] : i \in 1..Len(StreamOrder)}

\* Stream names a client may put in the URL that are not configured: a plain
\* unknown name, and the parent-directory name.
UnknownNames == {"camera9", ".."}

\* A directory an earlier run (or anyone else) may have left under the root.
StaleDirs == {"old"}

\* File names are sequences of pieces, so that "ends with" and "contains"
\* are different questions.
Playlist    == <<"stream", ".m3u8">>
PlaylistTmp == <<"stream", ".m3u8", ".tmp">>
Digit       == <<"0", "1", "2", "3">>
Segment(k)  == <<"stream", Digit[k + 1], ".ts">>
DotDot      == <<"..">>
AppPy       == <<"app", ".py">>

\* What ffmpeg's HLS muxer writes under root/name: the playlist, the
\* temporary playlist it renames into place, and the segments.
FfmpegFiles == {Playlist, PlaylistTmp} \cup {Segment(k) : k \in 0..MaxSegment}

\* File names a client may put in the URL (one path segment, no slash).
RequestFiles == FfmpegFiles \cup {DotDot, AppPy}

\* Entries of the directory that holds the root (app.py lives next to streams/).
ParentEntries == {AppPy}

Alive == {"running", "terminating"}

Signals == {"SIGINT", "SIGTERM"}

CleanupPcs == {"c_term", "c_wait", "c_kill", "c_purge"}
StartupPcs == {"reset", "mkdir", "popen", "record"}

VARIABLES
    pc,               \* position of the main thread
    idx,              \* position of the loop of start_stream_conversion
    process,          \* the local variable process of start_stream_conversion (0: unset)
    ffmpeg_processes, \* the registry: stream name -> pid
    cidx,             \* position of the loop of cleanup
    procs,            \* every subprocess ever spawned: pid -> [name, st]
    rootExists,       \* HLS_OUTPUT_DIR exists
    dirs,             \* subdirectories of HLS_OUTPUT_DIR
    files,            \* directory name -> set of file names in it
    http,             \* the request handler: idle, between exists and open, or responded
    trig,             \* the trigger of an exit that cleanup has not answered yet ("none": none)
    failed,           \* streams whose Popen raised
    served,           \* app.run was reached
    cleanupStarted,   \* cleanup was entered
    completed,        \* number of invocations of cleanup that returned normally
    cleanupErr,       \* an invocation of cleanup raised
    snap              \* what an observer sees after the first completed cleanup

vars == <<pc, idx, process, ffmpeg_processes, cidx, procs, rootExists, dirs, files,
          http, trig, failed, served, cleanupStarted, completed, cleanupErr, snap>>

mainVars == <<pc, idx, process, ffmpeg_processes, cidx>>
fsVars   == <<rootExists, dirs, files>>
histVars == <<trig, failed, served, cleanupStarted, completed, cleanupErr, snap>>

AllDirs == STREAMS \cup StaleDirs

NoFiles == [d \in AllDirs |-> {}]

Idle == [pc |-> "idle", name |-> "", filename |-> <<>>, status |-> 0, mime |-> "",
         body |-> <<>>, fs |-> 0, existed |-> FALSE]

(* ------------------------------ helpers -------------------------------- *)

\* The keys of ffmpeg_processes in iteration (insertion) order.
Tracked == SelectSeq(StreamOrder, LAMBDA n : n \in DOMAIN ffmpeg_processes)

\* Subprocesses of stream n that are alive.
Live(n) == {p \in 1..Len(procs) : procs[p].name = n /\ procs[p].st \in Alive}

\* What a liveness check of the tracked subprocesses and of the root shows.
Observable == [alive |-> {n \in DOMAIN ffmpeg_processes : procs[ffmpeg_processes[n]].st \in Alive},
               root  |-> rootExists]

Init ==
    /\ pc = "reset"
    /\ idx = 1
    /\ process = 0
    /\ ffmpeg_processes = <<>>
    /\ cidx = 1
    /\ procs = <<>>
    /\ rootExists \in BOOLEAN
    /\ dirs \in SUBSET AllDirs
    /\ rootExists = FALSE => dirs = {}
    /\ \E stale \in {{}, {Playlist}} : files = [d \in AllDirs |-> IF d \in dirs THEN stale ELSE {}]
    /\ http = Idle
    /\ trig = "none"
    /\ failed = {}
    /\ served = FALSE
    /\ cleanupStarted = FALSE
    /\ completed = 0
    /\ cleanupErr = FALSE
    /\ snap = Observable

(* ---------------------- the filesystem, as os sees it ------------------ *)

\* os.path.exists(os.path.join(HLS_OUTPUT_DIR, name, filename)): the path
\* names a file or a directory. root/n/.. is the root itself, root/../x is an
\* entry of the directory that holds the root.
PathExists(name, filename) ==
    IF name = ".."
    THEN rootExists /\ (filename = DotDot \/ filename \in ParentEntries)
    ELSE /\ rootExists
         /\ name \in dirs
         /\ (filename = DotDot \/ filename \in files[name])

\* open(path, 'rb') succeeds: the path names a regular file.
IsRegularFile(name, filename) ==
    IF name = ".."
    THEN rootExists /\ filename \in ParentEntries
    ELSE rootExists /\ name \in dirs /\ filename \in files[name]

(* ----------------------- start_stream_conversion ----------------------- *)

\* A reset that forgets the rmtree: makedirs(exist_ok=True) keeps what is there.
ResetDirs_Keep(ds) == ds

\* Lines 31-33: delete the root if it is there, then create it empty.
ResetDirs(ds) == {}

ResetTree ==
    /\ pc = "reset"
    /\ rootExists' = TRUE
    /\ dirs' = ResetDirs(dirs)
    /\ files' = [d \in AllDirs |-> IF d \in ResetDirs(dirs) THEN files[d] ELSE {}]
    /\ pc' = IF idx <= Len(StreamOrder) THEN "mkdir" ELSE "serving"
    /\ served' = (served \/ idx > Len(StreamOrder))
    /\ UNCHANGED <<idx, process, ffmpeg_processes, cidx, procs, http,
                   trig, failed, cleanupStarted, completed, cleanupErr, snap>>

\* A loop body without the makedirs of line 37.
WithStreamDir_Skipped(ds, n) == ds

\* Line 37: the subdirectories after os.makedirs(root/n, exist_ok=True).
WithStreamDir(ds, n) == ds \cup {n}

\* Lines 36-37: os.makedirs(root/name, exist_ok=True), which creates the
\* root as well when it is missing.
MakeStreamDir ==
    /\ pc = "mkdir"
    /\ rootExists' = TRUE
    /\ dirs' = WithStreamDir(dirs, StreamOrder[idx])
    /\ pc' = "popen"
    /\ UNCHANGED <<idx, process, ffmpeg_processes, cidx, procs, files, http>>
    /\ UNCHANGED histVars

\* Line 60, Popen returns: a new subprocess runs.
PopenOk ==
    /\ pc = "popen"
    /\ procs' = Append(procs, [name |-> StreamOrder[idx], st |-> "running"])
    /\ process' = Len(procs) + 1
    /\ pc' = "record"
    /\ UNCHANGED <<idx, ffmpeg_processes, cidx, http>>
    /\ UNCHANGED fsVars
    /\ UNCHANGED histVars

\* Line 60, Popen raises (ffmpeg is not installed, fork fails): nothing
\* catches it, so it leaves start_stream_conversion and the script, and the
\* interpreter exits.
PopenRaises ==
    /\ pc = "popen"
    /\ failed' = failed \cup {StreamOrder[idx]}
    /\ pc' = "exiting"
    /\ trig' = "exit"
    /\ UNCHANGED <<idx, process, ffmpeg_processes, cidx, procs, http,
                   served, cleanupStarted, completed, cleanupErr, snap>>
    /\ UNCHANGED fsVars

\* A loop that does not advance.
NextIdx_Stuck(i) == i

\* The for loop of line 35 moves to the next item.
NextIdx(i) == i + 1

\* Line 61, then the loop head; after the last stream, line 122: app.run.
Record ==
    /\ pc = "record"
    /\ ffmpeg_processes' = (StreamOrder[idx] :> process) @@ ffmpeg_processes
    /\ idx' = NextIdx(idx)
    /\ pc' = IF NextIdx(idx) <= Len(StreamOrder) THEN "mkdir" ELSE "serving"
    /\ served' = (served \/ NextIdx(idx) > Len(StreamOrder))
    /\ UNCHANGED <<process, cidx, procs, http,
                   trig, failed, cleanupStarted, completed, cleanupErr, snap>>
    /\ UNCHANGED fsVars

(* ------------------------- triggers of the exit ------------------------ *)

\* A handler that returns without raising SystemExit.
AfterSignal_Ignored(p) == p

\* Lines 88-89: the handler of SIGTERM and SIGINT calls exit(), which raises
\* SystemExit in the main thread wherever it is. During startup and serving
\* that unwinds to the interpreter's exit; inside cleanup (run by atexit) it
\* leaves cleanup where it stands, and the interpreter finishes exiting.
AfterSignal(p) == IF p \in CleanupPcs THEN "done" ELSE "exiting"

Signal(sig) ==
    /\ pc \in StartupPcs \cup {"serving"} \cup CleanupPcs
    /\ pc' = AfterSignal(pc)
    /\ trig' = IF pc \in CleanupPcs THEN trig ELSE sig
    /\ UNCHANGED <<idx, process, ffmpeg_processes, cidx, procs, http,
                   failed, served, cleanupStarted, completed, cleanupErr, snap>>
    /\ UNCHANGED fsVars

\* Line 122: app.run returns or raises (the port is taken, the server
\* stops), and the script ends.
AppRunEnds ==
    /\ pc = "serving"
    /\ pc' = "exiting"
    /\ trig' = "exit"
    /\ UNCHANGED <<idx, process, ffmpeg_processes, cidx, procs, http,
                   failed, served, cleanupStarted, completed, cleanupErr, snap>>
    /\ UNCHANGED fsVars

(* ------------------------------- cleanup ------------------------------- *)

\* A loop that leaves for the purge after its first process.
AfterProcess_ToPurge(k) == "c_purge"

\* Where cleanup goes after the process at position k of the registry.
AfterProcess(k) == IF k + 1 <= Len(Tracked) THEN "c_term" ELSE "c_purge"

\* Line 87: atexit calls cleanup; line 72 starts the loop over the registry.
AtExit ==
    /\ pc = "exiting"
    /\ cleanupStarted' = TRUE
    /\ trig' = "none"
    /\ cidx' = 1
    /\ pc' = IF Len(Tracked) >= 1 THEN "c_term" ELSE "c_purge"
    /\ UNCHANGED <<idx, process, ffmpeg_processes, procs, http,
                   failed, served, completed, cleanupErr, snap>>
    /\ UNCHANGED fsVars

\* A stop step that kills at once where it should ask first.
TerminateEffect_Kills(st) == IF st \in Alive THEN "killed" ELSE st

\* Popen.terminate(): SIGTERM to a subprocess that has not exited, nothing
\* (and no error) for one that has.
TerminateEffect(st) == IF st = "running" THEN "terminating" ELSE st

\* Line 74.
Terminate ==
    /\ pc = "c_term"
    /\ LET p == ffmpeg_processes[Tracked[cidx]]
       IN  procs' = [procs EXCEPT ![p].st = TerminateEffect(@)]
    /\ pc' = "c_wait"
    /\ UNCHANGED <<idx, process, ffmpeg_processes, cidx, http>>
    /\ UNCHANGED fsVars
    /\ UNCHANGED histVars

\* Line 77, wait returns: the subprocess had exited, or exits within the
\* 5 seconds.
WaitReturns ==
    /\ pc = "c_wait"
    /\ LET p == ffmpeg_processes[Tracked[cidx]]
       IN  procs' = [procs EXCEPT ![p].st = IF @ \in Alive THEN "exited" ELSE @]
    /\ pc' = AfterProcess(cidx)
    /\ cidx' = cidx + 1
    /\ UNCHANGED <<idx, process, ffmpeg_processes, http>>
    /\ UNCHANGED fsVars
    /\ UNCHANGED histVars

\* Lines 77-78, wait raises TimeoutExpired: the subprocess is still alive
\* after 5 seconds.
WaitTimesOut ==
    /\ pc = "c_wait"
    /\ procs[ffmpeg_processes[Tracked[cidx]]].st \in Alive
    /\ pc' = "c_kill"
    /\ UNCHANGED <<idx, process, ffmpeg_processes, cidx, procs, http>>
    /\ UNCHANGED fsVars
    /\ UNCHANGED histVars

\* A timeout that is logged but not followed by kill().
KillEffect_Skipped(st) == st

\* Popen.kill(): SIGKILL, which a subprocess can neither catch nor ignore.
KillEffect(st) == IF st \in Alive THEN "killed" ELSE st

\* Line 80.
Kill ==
    /\ pc = "c_kill"
    /\ LET p == ffmpeg_processes[Tracked[cidx]]
       IN  procs' = [procs EXCEPT ![p].st = KillEffect(@)]
    /\ pc' = AfterProcess(cidx)
    /\ cidx' = cidx + 1
    /\ UNCHANGED <<idx, process, ffmpeg_processes, http>>
    /\ UNCHANGED fsVars
    /\ UNCHANGED histVars

\* rmtree without the exists test in front of it.
ShouldRmtree_Always(exists) == TRUE

\* An rmtree that leaves the root in place.
RmtreeRoot_Keeps(exists) == exists

\* Line 82: the guard of the rmtree.
ShouldRmtree(exists) == exists

\* What shutil.rmtree(HLS_OUTPUT_DIR) leaves of the root.
RmtreeRoot(exists) == FALSE

\* cleanup returns: one more completed invocation; the first one is the
\* one an observer's snapshot is taken after.
Returned ==
    /\ completed' = completed + 1
    /\ snap' = IF completed = 0 THEN Observable' ELSE snap

\* Lines 82-84, rmtree succeeds or is not called; then cleanup returns.
Purge ==
    /\ pc = "c_purge"
    /\ ShouldRmtree(rootExists) => rootExists
    /\ IF ShouldRmtree(rootExists)
       THEN /\ rootExists' = RmtreeRoot(rootExists)
            /\ dirs' = IF RmtreeRoot(rootExists) THEN dirs ELSE {}
            /\ files' = IF RmtreeRoot(rootExists) THEN files ELSE NoFiles
       ELSE UNCHANGED fsVars
    /\ pc' = "done"
    /\ UNCHANGED <<idx, process, ffmpeg_processes, cidx, procs, http,
                   trig, failed, served, cleanupStarted, cleanupErr>>
    /\ Returned

\* Line 84, rmtree raises: the root is not there (FileNotFoundError), or a
\* subprocess that is still alive put a file into a directory between
\* rmtree's listing it and removing it (OSError, directory not empty).
\* cleanup ends by the exception.
PurgeRaises ==
    /\ pc = "c_purge"
    /\ ShouldRmtree(rootExists)
    /\ \/ /\ ~rootExists
          /\ UNCHANGED fsVars
       \/ /\ rootExists
          /\ \E p \in 1..Len(procs), f \in FfmpegFiles :
                /\ procs[p].st \in Alive
                /\ procs[p].name \in dirs
                /\ dirs' = {procs[p].name}
                /\ files' = [NoFiles EXCEPT ![procs[p].name] = {f}]
          /\ UNCHANGED rootExists
    /\ cleanupErr' = TRUE
    /\ pc' = "done"
    /\ UNCHANGED <<idx, process, ffmpeg_processes, cidx, procs, http,
                   trig, failed, served, cleanupStarted, completed, snap>>

\* cleanup is invoked once more after it returned (a caller that runs it
\* itself and leaves the atexit registration in place).
CleanupAgain ==
    /\ pc = "done"
    /\ completed >= 1
    /\ completed < MaxCleanups
    /\ ~cleanupErr
    /\ cidx' = 1
    /\ pc' = IF Len(Tracked) >= 1 THEN "c_term" ELSE "c_purge"
    /\ UNCHANGED <<idx, process, ffmpeg_processes, procs, http>>
    /\ UNCHANGED fsVars
    /\ UNCHANGED histVars

(* --------------------------- the subprocesses -------------------------- *)

\* A supervisor that starts a new subprocess for a stream whose subprocess ended.
ProcExits_Respawns(p) ==
    /\ procs[p].st \in Alive
    /\ procs' = Append([procs EXCEPT ![p].st = "exited"],
                       [name |-> procs[p].name, st |-> "running"])
    /\ UNCHANGED <<pc, idx, process, ffmpeg_processes, cidx, http>>
    /\ UNCHANGED fsVars
    /\ UNCHANGED histVars

\* A subprocess ends: the URI is bad, the camera goes away, or it obeys a
\* SIGTERM.
ProcExits(p) ==
    /\ procs[p].st \in Alive
    /\ procs' = [procs EXCEPT ![p].st = "exited"]
    /\ UNCHANGED <<pc, idx, process, ffmpeg_processes, cidx, http>>
    /\ UNCHANGED fsVars
    /\ UNCHANGED histVars

\* ffmpeg writes a playlist or a segment into its directory (lines 46-56:
\* the output path is root/name/stream.m3u8).
FfmpegWrites(p, f) ==
    /\ procs[p].st \in Alive
    /\ rootExists
    /\ procs[p].name \in dirs
    /\ f \notin files[procs[p].name]
    /\ files' = [files EXCEPT ![procs[p].name] = @ \cup {f}]
    /\ UNCHANGED <<rootExists, dirs, procs, http>>
    /\ UNCHANGED mainVars
    /\ UNCHANGED histVars

\* ffmpeg deletes an expired segment (-hls_flags delete_segments) or renames
\* the temporary playlist away.
FfmpegDeletes(p, f) ==
    /\ procs[p].st \in Alive
    /\ rootExists
    /\ procs[p].name \in dirs
    /\ f \in files[procs[p].name]
    /\ files' = [files EXCEPT ![procs[p].name] = @ \ {f}]
    /\ UNCHANGED <<rootExists, dirs, procs, http>>
    /\ UNCHANGED mainVars
    /\ UNCHANGED histVars

(* ------------------------------ HTTP routes ---------------------------- *)

\* x in s, for a file name s and one of its pieces x.
Contains(s, x) == \E i \in 1..Len(s) : s[i] = x

\* s ends with x.
EndsWith(s, x) == Len(s) >= 1 /\ s[Len(s)] = x

\* A route without the check of the stream name.
IsConfigured_Any(name) == TRUE

\* A route without the existence check.
FileMissing_Never(name, filename) == FALSE

\* Line 107: stream_name in STREAMS.
IsConfigured(name) == name \in STREAMS

\* Line 112: not os.path.exists(file_path).
FileMissing(name, filename) == ~PathExists(name, filename)

\* Line 115: the mimetype.
MimeType(filename) ==
    IF Contains(filename, ".m3u8") THEN "application/vnd.apple.mpegurl" ELSE "video/MP2T"

\* The server takes requests while app.run runs; one handler at a time.
Accepting == pc = "serving" /\ http.pc = "idle"

\* Lines 94-100: the index page.
Index ==
    /\ Accepting
    /\ http' = [Idle EXCEPT !.pc = "resp", !.status = 200, !.mime = "text/html",
                            !.body = StreamOrder]
    /\ UNCHANGED <<procs>>
    /\ UNCHANGED mainVars
    /\ UNCHANGED fsVars
    /\ UNCHANGED histVars

\* Lines 103-113: the file route up to its existence check.
ServeCheck(name, filename) ==
    /\ Accepting
    /\ http' =
         IF ~IsConfigured(name)
         THEN [Idle EXCEPT !.pc = "resp", !.name = name, !.filename = filename,
                           !.status = 404, !.mime = "text/html",
                           !.body = <<"Stream not found">>]
         ELSE IF FileMissing(name, filename)
         THEN [Idle EXCEPT !.pc = "resp", !.name = name, !.filename = filename,
                           !.status = 404, !.mime = "text/html",
                           !.body = <<"File not found">>,
                           !.fs = 1, !.existed = PathExists(name, filename)]
         ELSE [Idle EXCEPT !.pc = "open", !.name = name, !.filename = filename,
                           !.fs = 1, !.existed = PathExists(name, filename)]
    /\ UNCHANGED <<procs>>
    /\ UNCHANGED mainVars
    /\ UNCHANGED fsVars
    /\ UNCHANGED histVars

\* A handler that removes the file it has served.
ServeOpen_Consumes ==
    /\ http.pc = "open"
    /\ pc # "done"
    /\ http' =
         IF IsRegularFile(http.name, http.filename)
         THEN [http EXCEPT !.pc = "resp", !.status = 200,
                           !.mime = MimeType(http.filename),
                           !.body = <<http.name, http.filename>>, !.fs = 2]
         ELSE [http EXCEPT !.pc = "resp", !.status = 500, !.mime = "text/html",
                           !.body = <<"Internal Server Error">>, !.fs = 2]
    /\ files' = IF IsRegularFile(http.name, http.filename) /\ http.name \in AllDirs
                THEN [files EXCEPT ![http.name] = @ \ {http.filename}]
                ELSE files
    /\ UNCHANGED <<procs, rootExists, dirs>>
    /\ UNCHANGED mainVars
    /\ UNCHANGED histVars

\* Line 115: open(file_path, 'rb') and the Response around it. A path that
\* is no regular file by now makes open raise, which Flask turns into 500.
\* Handler threads are daemon threads: one may still run while the main
\* thread is in cleanup, until the process is gone.
ServeOpen ==
    /\ http.pc = "open"
    /\ pc # "done"
    /\ http' =
         IF IsRegularFile(http.name, http.filename)
         THEN [http EXCEPT !.pc = "resp", !.status = 200,
                           !.mime = MimeType(http.filename),
                           !.body = <<http.name, http.filename>>, !.fs = 2]
         ELSE [http EXCEPT !.pc = "resp", !.status = 500, !.mime = "text/html",
                           !.body = <<"Internal Server Error">>, !.fs = 2]
    /\ UNCHANGED <<procs>>
    /\ UNCHANGED mainVars
    /\ UNCHANGED fsVars
    /\ UNCHANGED histVars

\* The response is sent; the handler is free again.
Respond ==
    /\ http.pc = "resp"
    /\ http' = Idle
    /\ UNCHANGED <<procs>>
    /\ UNCHANGED mainVars
    /\ UNCHANGED fsVars
    /\ UNCHANGED histVars

(* ---------------------------- specifications --------------------------- *)

Next ==
    \/ ResetTree
    \/ MakeStreamDir
    \/ PopenOk
    \/ PopenRaises
    \/ Record
    \/ \E sig \in Signals : Signal(sig)
    \/ AppRunEnds
    \/ AtExit
    \/ Terminate
    \/ WaitReturns
    \/ WaitTimesOut
    \/ Kill
    \/ Purge
    \/ PurgeRaises
    \/ \E p \in 1..Len(procs) : ProcExits(p)
    \/ \E p \in 1..Len(procs), f \in FfmpegFiles : FfmpegWrites(p, f)
    \/ \E p \in 1..Len(procs), f \in FfmpegFiles : FfmpegDeletes(p, f)
    \/ Index
    \/ \E name \in STREAMS \cup UnknownNames, filename \in RequestFiles : ServeCheck(name, filename)
    \/ ServeOpen
    \/ Respond

Spec == Init /\ [][Next]_vars

\* The program with cleanup invoked up to MaxCleanups times.
NextTwice == Next \/ CleanupAgain

SpecTwice == Init /\ [][NextTwice]_vars

\* The interpreter runs its atexit callbacks once the main thread unwinds.
FairSpec == Init /\ [][Next]_vars /\ WF_vars(AtExit)

(* -------------------------------- claims ------------------------------- *)

Mpegurl == "application/vnd.apple.mpegurl"
Mp2t    == "video/MP2T"

\* Tracked subprocesses that are still running.
TrackedAlive == {n \in DOMAIN ffmpeg_processes : procs[ffmpeg_processes[n]].st \in Alive}

\* Tracked subprocesses that cleanup had to kill.
TrackedKilled == {n \in DOMAIN ffmpeg_processes : procs[ffmpeg_processes[n]].st = "killed"}

\* C1: once cleanup has run to completion, no subprocess of the registry is
\* running any more, a force-killed one included.
C1_NoTrackedRunning == completed >= 1 => TrackedAlive = {}

\* A cleanup that completed after killing a subprocess that ignored SIGTERM.
C1_Witness == completed >= 1 /\ TrackedKilled # {}

\* C2: once cleanup has run to completion, HLS_OUTPUT_DIR does not exist.
C2_RootGone == completed >= 1 => ~rootExists

\* A cleanup that completed with both streams spawned, one killed and one
\* that exited on SIGTERM.
C2_Witness ==
    /\ completed >= 1
    /\ ~rootExists
    /\ DOMAIN ffmpeg_processes = STREAMS
    /\ \E n, m \in STREAMS : /\ procs[ffmpeg_processes[n]].st = "killed"
                             /\ procs[ffmpeg_processes[m]].st = "exited"

\* C3: a second invocation of cleanup after a completed one raises nothing,
\* and leaves what the first one left: every tracked subprocess stopped, the
\* root absent.
C3_SecondCleanupSame ==
    /\ completed >= 1 => ~cleanupErr
    /\ completed >= 2 => /\ Observable = snap
                         /\ Observable = [alive |-> {}, root |-> FALSE]

\* Two completed invocations, the first of which killed a subprocess.
C3_Witness == completed = 2 /\ TrackedKilled # {} /\ pc = "done"

\* C4: a file request whose stream name is not configured is answered 404
\* before the handler looks at the filesystem, whatever lies at the path.
C4_UnknownName404 ==
    (http.pc \in {"open", "resp"} /\ http.name \in UnknownNames)
        => (http.pc = "resp" /\ http.status = 404 /\ http.fs = 0)

\* A 404 for root/../app.py, which exists.
C4_Witness ==
    /\ http.pc = "resp"
    /\ http.name = ".."
    /\ http.filename = AppPy
    /\ PathExists(http.name, http.filename)
    /\ http.status = 404

\* C5: a file request for a configured stream is answered 404 exactly when
\* nothing exists at root/name/filename when the handler checks, and 200
\* only with the bytes of the file that is there.
C5_Missing404 ==
    /\ (http.pc = "open" /\ http.name \in STREAMS) => http.existed
    /\ (http.pc = "resp" /\ http.name \in STREAMS) =>
          /\ http.status = 404 <=> ~http.existed
          /\ http.status = 200 => /\ http.existed
                                  /\ http.body = <<http.name, http.filename>>

\* A 404 for a stream whose subprocess runs and has written nothing yet.
C5_Witness ==
    /\ http.pc = "resp"
    /\ http.name \in STREAMS
    /\ http.status = 404
    /\ http.filename = Segment(0)
    /\ files[http.name] = {}
    /\ Live(http.name) # {}

\* C6 (as claimed): a served file's content type goes by the suffix of its
\* name: .m3u8 gives the playlist type, any other suffix the segment type.
C6_MimeBySuffix ==
    (http.pc = "resp" /\ http.name \in STREAMS /\ http.status = 200)
        => http.mime = IF EndsWith(http.filename, ".m3u8") THEN Mpegurl ELSE Mp2t

\* C7: a configured stream never has more than one live subprocess.
C7_AtMostOneLive == \A n \in STREAMS : Cardinality(Live(n)) <= 1

\* The server serves with one live subprocess per stream.
C7_Witness == pc = "serving" /\ \A n \in STREAMS : Cardinality(Live(n)) = 1

\* C8: while the server serves (startup done, shutdown not begun), the
\* subdirectories of the root are exactly the configured stream names.
C8_DirsAreStreams == pc = "serving" => (rootExists /\ dirs = STREAMS)

\* The server serves and ffmpeg has written into every stream's directory.
C8_Witness ==
    /\ pc = "serving"
    /\ dirs = STREAMS
    /\ \A n \in STREAMS : Playlist \in files[n]

\* C9 (as claimed): a Popen that fails does not stop the startup: the loop
\* goes on to the next stream, or to app.run after the last one.
C9_SpawnFailureNotFatal == [][failed' # failed => pc' \in {"mkdir", "serving"}]_vars

\* C10: each trigger (exit of the script, SIGINT, SIGTERM) during startup
\* or serving leads to cleanup being run.
C10_TriggerRunsCleanup ==
    \A t \in Signals \cup {"exit"} : (trig = t) ~> cleanupStarted

\* A SIGINT during startup, between Popen and the registry's update, with
\* the atexit callback about to run.
C10_Witness == trig = "SIGINT" /\ pc = "exiting" /\ process # 0 /\ ENABLED AtExit

\* C11 (as claimed): no subprocess is spawned while the directory of some
\* configured stream is not yet created: right after a Popen, every
\* root/name exists.
C11_AllDirsBeforeSpawn == pc = "record" => (rootExists /\ STREAMS \subseteq dirs)

\* C11 (amended): the root is reset before any Popen, and each stream's own
\* directory is created before that stream's Popen; right after a Popen the
\* root holds the directory of the spawned stream and no stale directory.
C11_OwnDirBeforeSpawn ==
    pc = "record" => /\ rootExists
                     /\ procs[process].name \in dirs
                     /\ dirs \subseteq STREAMS

\* The first stream is spawned while the second one's directory is missing.
C11_Witness ==
    /\ pc = "record"
    /\ procs[process].name = StreamOrder[1]
    /\ StreamOrder[1] \in dirs
    /\ StreamOrder[2] \notin dirs

\* The subprocess the loop of cleanup is at.
Cur == ffmpeg_processes[Tracked[cidx]]

\* C12: cleanup waits for, and kills, only a subprocess it has asked to
\* terminate; it reaches kill() only from a wait that timed out on a live
\* subprocess; a subprocess is killed only there; and the wait moves on
\* without kill() only when the subprocess has exited.
C12_KillOnlyAfterTimeout ==
    /\ [](pc \in {"c_wait", "c_kill"} => procs[Cur].st # "running")
    /\ [][\A p \in 1..Len(procs) :
            (procs[p].st # "killed" /\ procs'[p].st = "killed")
                => (pc = "c_kill" /\ p = Cur /\ procs[p].st = "terminating")]_vars
    /\ [][(pc # "c_kill" /\ pc' = "c_kill")
            => (pc = "c_wait" /\ procs[Cur].st \in Alive /\ procs' = procs)]_vars
    /\ [][(pc = "c_wait" /\ pc' \in {"c_term", "c_purge"})
            => procs'[Cur].st \notin Alive]_vars

\* cleanup is about to kill a subprocess that outlived SIGTERM and the wait,
\* after another one exited within its wait.
C12_Witness ==
    /\ pc = "c_kill"
    /\ cidx = 2
    /\ procs[Cur].st = "terminating"
    /\ procs[ffmpeg_processes[Tracked[1]]].st = "exited"

\* C13: cleanup reaches its purge, and the root is deleted, only when every
\* tracked subprocess has been through the stop step and is no longer alive.
C13_PurgeAfterStop ==
    /\ [](pc = "c_purge" => TrackedAlive = {})
    /\ [][(rootExists /\ ~rootExists') => (pc = "c_purge" /\ TrackedAlive = {})]_vars

\* cleanup stands before the purge of a root that holds files, with both
\* streams tracked and stopped.
C13_Witness ==
    /\ pc = "c_purge"
    /\ rootExists
    /\ DOMAIN ffmpeg_processes = STREAMS
    /\ \A n \in STREAMS : files[n] # {}

\* C14 (as claimed): a signal that arrives while cleanup runs does not cut
\* it short: when the server process is gone and cleanup raised nothing,
\* every tracked subprocess is stopped and the root is removed.
C14_SignalKeepsCleanup ==
    (pc = "done" /\ ~cleanupErr) => (TrackedAlive = {} /\ ~rootExists)

\* Subprocesses that were spawned and are not in the registry.
Untracked == {p \in 1..Len(procs) : \A n \in DOMAIN ffmpeg_processes : ffmpeg_processes[n] # p}

\* C15 (as claimed): whenever cleanup can start, every subprocess that was
\* spawned is in the registry.
C15_SpawnedAreTracked == pc = "exiting" => Untracked = {}

\* C16 (as claimed): a request for a file of a configured stream ends in 200
\* or in 404, also when the file is deleted between the existence check and
\* the open.
C16_RaceEnds200Or404 ==
    (http.pc = "resp" /\ http.name \in STREAMS /\ http.filename \in FfmpegFiles)
        => http.status \in {200, 404}

\* The path root/name/filename stays directly inside root/name: filename
\* is neither the parent-directory name nor empty.
DirectlyInside(filename) == filename # DotDot /\ filename # <<>>

\* C17 (as claimed): the handler takes a path for an existing file, and goes
\* on to open it, only when the path lies directly inside the directory of
\* the configured stream.
C17_NoTraversal ==
    (http.pc = "open" /\ http.name \in STREAMS) => DirectlyInside(http.filename)

\* C18: a step of the HTTP layer (index or file route, whatever it answers)
\* changes neither the output tree nor the registry nor a subprocess.
C18_HttpReadsOnly ==
    [][http' # http => UNCHANGED <<rootExists, dirs, files, ffmpeg_processes, procs>>]_vars

\* A file was served with 200 and is still where it was.
C18_Witness ==
    /\ http.pc = "resp"
    /\ http.status = 200
    /\ http.name \in STREAMS
    /\ http.filename \in files[http.name]

\* Subprocesses ever spawned for stream n.
Spawned(n) == {p \in 1..Len(procs) : procs[p].name = n}

\* C19: over the session every stream is spawned at most once, and a stream
\* whose subprocess has ended has no live subprocess from then on.
C19_NoRespawn ==
    /\ [](\A n \in STREAMS : Cardinality(Spawned(n)) <= 1)
    /\ [][\A n \in STREAMS :
            (Spawned(n) # {} /\ Live(n) = {})
                => \A q \in 1..Len(procs') : procs'[q].name = n => procs'[q].st \notin Alive]_vars

\* The server serves while the subprocess of its first stream has ended and
\* the other one runs.
C19_Witness ==
    /\ pc = "serving"
    /\ Spawned(StreamOrder[1]) # {}
    /\ Live(StreamOrder[1]) = {}
    /\ Live(StreamOrder[2]) # {}

====
